---- MODULE Spec2Model ----
(***************************************************************************)
(* RESP codec of simple-redis: the encoder (resp/encode.rs, resp/array.rs),*)
(* the decoder and the length prober (resp/decode.rs, resp/array.rs), and  *)
(* a connection that carries encoded frames to the decoder in chunks;      *)
(* ApproximateFloat (resp/double.rs) as a DashMap key; the shared Backend  *)
(* (backend/mod.rs), the commands of cmd/set.rs and cmd/echo.rs, and the   *)
(* accept loop of main.rs with one task per connection.                    *)
(*                                                                         *)
(* A byte is a one-character string; a buffer is a sequence of bytes.      *)
(* Offsets named end, total, len are the 0-based offsets of the Rust code. *)
(***************************************************************************)
EXTENDS Integers, Sequences, FiniteSets, TLC

VARIABLES
    buf,     \* the connection's BytesMut: bytes read and not yet consumed
    wire,    \* bytes the client has written and the server has not yet read
    sent,    \* the frames the client has encoded, in order
    raw,     \* TRUE once the client has written bytes that no encoder produced
    enc,     \* every byte the client has written, in order
    got,     \* the frames the server has decoded, in order
    last,    \* the codec call made since the last read: its name, the buffer it
             \* was given, its result
    status,  \* "open", "closed" after a fatal RespError, "panicked" after a panic
    fset,    \* a DashMap<ApproximateFloat, ()> and the last call made on it
    backend, \* the shared Backend: its three DashMaps and the shard locks held
    conns,   \* the connection tasks spawned by the accept loop
    listener, \* the accept loop of main
    api      \* the last direct call of a command conversion or a Backend method

codecVars == <<buf, wire, sent, raw, enc, got, last, status>>
serverVars == <<backend, conns, listener>>
vars == <<buf, wire, sent, raw, enc, got, last, status, fset, backend, conns, listener, api>>

(***************************************************************************)
(* Bounds of the model.                                                    *)
(***************************************************************************)
MaxElems == 2
MaxInt == 11
MaxFrames == 2
MaxGot == 3
MaxConns == 2
MaxReqs == 2
MaxCalls == 3
\* the width of usize in the model; the targets have 32 or 64 bits, and no count
\* of the model lies between the array lengths and usize::MAX
usize_BITS == 16

(***************************************************************************)
(* Bytes and slices.                                                       *)
(***************************************************************************)
CR == "\r"
LF == "\n"
CRLF == <<CR, LF>>
CRLF_LEN == 2

Take(s, n) == SubSeq(s, 1, n)
Drop(s, n) == SubSeq(s, n + 1, Len(s))

starts_with(b, pat) ==
    /\ Len(b) >= Len(pat)
    /\ \A i \in 1..Len(pat) : b[i] = pat[i]

Digits == <<"0", "1", "2", "3", "4", "5", "6", "7", "8", "9">>
IsDigit(c) == \E d \in 1..10 : Digits[d] = c
DigitVal(c) == (CHOOSE d \in 1..10 : Digits[d] = c) - 1

\* ASCII code of the bytes that occur in map keys (String's Ord is bytewise).
Code(c) ==
    CASE c = "K" -> 75 [] c = "O" -> 79 [] c = "a" -> 97 [] c = "b" -> 98
      [] c = "h" -> 104 [] c = "i" -> 105 [] OTHER -> 0

RECURSIVE StrLess(_, _)
StrLess(s, t) ==
    IF t = <<>> THEN FALSE
    ELSE IF s = <<>> THEN TRUE
    ELSE IF Code(s[1]) # Code(t[1]) THEN Code(s[1]) < Code(t[1])
    ELSE StrLess(Tail(s), Tail(t))

(***************************************************************************)
(* Results: Result<T, RespError>, and a panic (slice index out of range)   *)
(* which is no RespError and unwinds through every caller.                 *)
(***************************************************************************)
Ok(v) == [ok |-> TRUE, val |-> v]
Err(e) == [ok |-> FALSE, err |-> e]
DecOk(v, rest) == [ok |-> TRUE, val |-> v, rest |-> rest]
DecErr(e, rest) == [ok |-> FALSE, err |-> e, rest |-> rest]

FatalErrors == {"InvalidFrameType", "InvalidFrame", "ParseIntError", "ParseFloatError"}

(***************************************************************************)
(* Number <-> text conversions of the standard library.                    *)
(***************************************************************************)
RECURSIVE NatToStr(_)
NatToStr(n) ==
    IF n < 10 THEN <<Digits[n + 1]>>
    ELSE NatToStr(n \div 10) \o <<Digits[(n % 10) + 1]>>

\* format!("{}", i) of a signed integer
IntToStr(i) == IF i < 0 THEN <<"-">> \o NatToStr(0 - i) ELSE NatToStr(i)

RECURSIVE DigitsToNat(_, _)
DigitsToNat(s, acc) ==
    IF s = <<>> THEN acc ELSE DigitsToNat(Tail(s), acc * 10 + DigitVal(s[1]))

AllDigits(s) == s # <<>> /\ \A i \in 1..Len(s) : IsDigit(s[i])

\* str::parse::<usize>: an optional '+', then one or more digits; no '-'.
ParseUsize(s) ==
    LET body == IF s # <<>> /\ s[1] = "+" THEN Tail(s) ELSE s
    IN  IF AllDigits(body) THEN Ok(DigitsToNat(body, 0)) ELSE Err("ParseIntError")

\* str::parse::<i64> and ::<isize>: an optional '+' or '-', then digits.
ParseInt(s) ==
    LET neg  == s # <<>> /\ s[1] = "-"
        body == IF s # <<>> /\ s[1] \in {"+", "-"} THEN Tail(s) ELSE s
    IN  IF AllDigits(body)
        THEN Ok(IF neg THEN 0 - DigitsToNat(body, 0) ELSE DigitsToNat(body, 0))
        ELSE Err("ParseIntError")

(***************************************************************************)
(* f64 payloads are decimal values m * 10^e, kept normalised: m = 0 with   *)
(* e = 0, or m not divisible by 10.                                        *)
(***************************************************************************)
RECURSIVE NormDec(_, _)
NormDec(m, e) ==
    IF m = 0 THEN [m |-> 0, e |-> 0]
    ELSE IF m % 10 = 0 THEN NormDec(m \div 10, e + 1)
    ELSE [m |-> m, e |-> e]

Abs(i) == IF i < 0 THEN 0 - i ELSE i

\* format!("{:+e}", x): explicit sign, one digit, optional fraction, 'e', exponent
FmtPlusE(x) ==
    LET d == NatToStr(Abs(x.m))
        k == Len(d)
    IN  <<(IF x.m < 0 THEN "-" ELSE "+"), d[1]>>
          \o (IF k > 1 THEN <<".">> \o Drop(d, 1) ELSE <<>>)
          \o <<"e">> \o IntToStr(x.e + k - 1)

IndexOf(s, cs) ==
    IF \E i \in 1..Len(s) : s[i] \in cs
    THEN CHOOSE i \in 1..Len(s) : s[i] \in cs /\ \A j \in 1..(i - 1) : s[j] \notin cs
    ELSE 0

\* str::parse::<f64> on decimal text: [sign] digits [. digits] [(e|E) [sign] digits]
ParseF64(s) ==
    LET neg   == s # <<>> /\ s[1] = "-"
        u     == IF s # <<>> /\ s[1] \in {"+", "-"} THEN Tail(s) ELSE s
        ePos  == IndexOf(u, {"e", "E"})
        mant  == IF ePos = 0 THEN u ELSE Take(u, ePos - 1)
        expS  == IF ePos = 0 THEN <<"0">> ELSE Drop(u, ePos)
        dot   == IndexOf(mant, {"."})
        ip    == IF dot = 0 THEN mant ELSE Take(mant, dot - 1)
        fp    == IF dot = 0 THEN <<>> ELSE Drop(mant, dot)
        ex    == ParseInt(expS)
        okM   == /\ ip \o fp # <<>>
                 /\ \A i \in 1..Len(ip \o fp) : IsDigit((ip \o fp)[i])
    IN  IF okM /\ ex.ok
        THEN LET m == DigitsToNat(ip \o fp, 0)
             IN  Ok(NormDec(IF neg THEN 0 - m ELSE m, ex.val - Len(fp)))
        ELSE Err("ParseFloatError")

(***************************************************************************)
(* RespFrame and its payload types (resp/mod.rs); the payload field is     *)
(* named after its type.                                                   *)
(* A Map is a BTreeMap<String, RespFrame>: a sequence of <<key, value>>    *)
(* pairs in ascending key order, keys distinct.                            *)
(***************************************************************************)
SimpleStringF(s) == [kind |-> "SimpleString", str |-> s]
ErrorF(s) == [kind |-> "Error", str |-> s]
IntegerF(i) == [kind |-> "Integer", int |-> i]
BulkStringF(b) == [kind |-> "BulkString", str |-> b]
ArrayF(fs) == [kind |-> "Array", items |-> fs]
NullF == [kind |-> "Null"]
NullArrayF == [kind |-> "NullArray"]
NullBulkStringF == [kind |-> "NullBulkString"]
BooleanF(b) == [kind |-> "Boolean", bool |-> b]
DoubleF(x) == [kind |-> "Double", dec |-> x]
MapF(ps) == [kind |-> "Map", pairs |-> ps]
SetF(fs) == [kind |-> "Set", items |-> fs]

\* a map insertion that keeps the value already stored under an equal key
BTreeMap_insert_keeps_first(m, k, v) ==
    IF \E i \in 1..Len(m) : m[i][1] = k
    THEN m
    ELSE LET n == Cardinality({i \in 1..Len(m) : StrLess(m[i][1], k)})
         IN  Take(m, n) \o <<<<k, v>>>> \o Drop(m, n)

\* BTreeMap::insert: replace the value of an equal key, else insert in key order.
BTreeMap_insert(m, k, v) ==
    IF \E i \in 1..Len(m) : m[i][1] = k
    THEN [i \in 1..Len(m) |-> IF m[i][1] = k THEN <<k, v>> ELSE m[i]]
    ELSE LET n == Cardinality({i \in 1..Len(m) : StrLess(m[i][1], k)})
         IN  Take(m, n) \o <<<<k, v>>>> \o Drop(m, n)

(***************************************************************************)
(* Encoder (resp/encode.rs; RespArray also in resp/array.rs).              *)
(***************************************************************************)
SimpleString_encode(s) == <<"+">> \o s \o CRLF

SimpleError_encode(s) == <<"-">> \o s \o CRLF

i64_encode(i) == <<":">> \o (IF i < 0 THEN <<>> ELSE <<"+">>) \o IntToStr(i) \o CRLF

bool_encode(b) == <<"#", (IF b THEN "t" ELSE "f")>> \o CRLF

f64_encode(x) == <<",">> \o FmtPlusE(x) \o CRLF

BulkString_encode(b) == <<"$">> \o NatToStr(Len(b)) \o CRLF \o b \o CRLF

RespNullBulkString_encode == <<"$", "-", "1">> \o CRLF

RespNull_encode == <<"_">> \o CRLF

RespNullArray_encode == <<"*", "-", "1">> \o CRLF

\* The two impls of RespEncode for RespArray that the sources hold.
ArrayImpls == {"array.rs", "encode.rs"}

RECURSIVE encode(_, _), EncodeAll(_, _), EncodePairs(_, _)

\* `for frame in self.0 { buf.extend_from_slice(&frame.encode()) }`
EncodeAll(fs, impl) ==
    IF fs = <<>> THEN <<>> ELSE encode(fs[1], impl) \o EncodeAll(Tail(fs), impl)

\* `for (key, value) in self.0 { SimpleString::new(key).encode(); value.encode() }`
EncodePairs(ps, impl) ==
    IF ps = <<>> THEN <<>>
    ELSE SimpleString_encode(ps[1][1]) \o encode(ps[1][2], impl)
             \o EncodePairs(Tail(ps), impl)

\* resp/array.rs: the empty array is written as the null array
array_rs_RespArray_encode(fs, impl) ==
    IF fs = <<>> THEN <<"*", "-", "1">> \o CRLF
    ELSE <<"*">> \o NatToStr(Len(fs)) \o CRLF \o EncodeAll(fs, impl)

\* resp/encode.rs: the count is always written
encode_rs_RespArray_encode(fs, impl) ==
    <<"*">> \o NatToStr(Len(fs)) \o CRLF \o EncodeAll(fs, impl)

RespArray_encode(fs, impl) ==
    IF impl = "array.rs" THEN array_rs_RespArray_encode(fs, impl)
    ELSE encode_rs_RespArray_encode(fs, impl)

RespMap_encode(ps, impl) ==
    <<"%">> \o NatToStr(Len(ps)) \o CRLF \o EncodePairs(ps, impl)

RespSet_encode(fs, impl) ==
    <<"~">> \o NatToStr(Len(fs)) \o CRLF \o EncodeAll(fs, impl)

\* RespFrame::encode, the enum dispatch over the variant
encode(f, impl) ==
    CASE f.kind = "SimpleString" -> SimpleString_encode(f.str)
      [] f.kind = "Error" -> SimpleError_encode(f.str)
      [] f.kind = "Integer" -> i64_encode(f.int)
      [] f.kind = "BulkString" -> BulkString_encode(f.str)
      [] f.kind = "Array" -> RespArray_encode(f.items, impl)
      [] f.kind = "Null" -> RespNull_encode
      [] f.kind = "NullArray" -> RespNullArray_encode
      [] f.kind = "NullBulkString" -> RespNullBulkString_encode
      [] f.kind = "Boolean" -> bool_encode(f.bool)
      [] f.kind = "Double" -> f64_encode(f.dec)
      [] f.kind = "Map" -> RespMap_encode(f.pairs, impl)
      [] f.kind = "Set" -> RespSet_encode(f.items, impl)

(***************************************************************************)
(* Decoder helpers (resp/decode.rs).                                       *)
(***************************************************************************)
\* `let v = ...;` : K applied to the value v
Bind(v, K(_)) == K(v)

\* Consumes `expect` from the front of the buffer, or fails and consumes nothing.
extract_fixed_data(b, expect) ==
    IF Len(b) < Len(expect) THEN DecErr("NotComplete", b)
    ELSE IF ~starts_with(b, expect) THEN DecErr("InvalidFrameType", b)
    ELSE DecOk(TRUE, Drop(b, Len(expect)))

\* 0-based offsets i in 1..len-2 with b[i] = CR and b[i+1] = LF
CrlfAt(b) == {i \in 1..(Len(b) - 2) : b[i + 1] = CR /\ b[i + 2] = LF}

\* Option<usize>: the offset of the nth CRLF, or -1 for None
find_crlf(b, nth) ==
    Bind(CrlfAt(b), LAMBDA S :
        IF Cardinality(S) < nth THEN -1
        ELSE CHOOSE i \in S : Cardinality({j \in S : j < i}) = nth - 1)

extract_simple_frame_data(b, prefix) ==
    IF Len(b) < 3 THEN Err("NotComplete")
    ELSE IF ~starts_with(b, prefix) THEN Err("InvalidFrameType")
    ELSE Bind(find_crlf(b, 1), LAMBDA end :
             IF end = -1 THEN Err("NotComplete") ELSE Ok(end))

\* Ok(<<end, len>>): the length field is parsed as usize
parse_length(b, prefix) ==
    Bind(extract_simple_frame_data(b, prefix), LAMBDA e :
        IF ~e.ok THEN e
        ELSE Bind(ParseUsize(SubSeq(b, Len(prefix) + 1, e.val)), LAMBDA n :
                 IF ~n.ok THEN n ELSE Ok(<<e.val, n.val>>)))

\* parse_length as resp/array.rs uses it: the length field is signed
array_rs_parse_length(b, prefix) ==
    Bind(extract_simple_frame_data(b, prefix), LAMBDA e :
        IF ~e.ok THEN e
        ELSE Bind(ParseInt(SubSeq(b, Len(prefix) + 1, e.val)), LAMBDA n :
                 IF ~n.ok THEN n ELSE Ok(<<e.val, n.val>>)))

(***************************************************************************)
(* Length prober and decoder (resp/decode.rs), mutually recursive.         *)
(* A decode result carries the buffer as the call leaves it.               *)
(***************************************************************************)
RECURSIVE RespFrame_decode(_), RespFrame_expected_length(_)
RECURSIVE calc_total_length(_, _, _, _), ProbeChildren(_, _, _)
RECURSIVE DecodeFrames(_, _, _), DecodePairs(_, _, _)

\* `let end = extract_simple_frame_data(buf, prefix)?; Ok(end + CRLF_LEN)`
SimpleLine_expected_length(b, prefix) ==
    Bind(extract_simple_frame_data(b, prefix), LAMBDA e :
        IF ~e.ok THEN e ELSE Ok(e.val + CRLF_LEN))

SimpleString_expected_length(b) == SimpleLine_expected_length(b, <<"+">>)

SimpleString_decode(b) ==
    Bind(extract_simple_frame_data(b, <<"+">>), LAMBDA e :
        IF ~e.ok THEN DecErr(e.err, b)
        ELSE DecOk(SimpleStringF(SubSeq(b, 2, e.val)), Drop(b, e.val + CRLF_LEN)))

SimpleError_expected_length(b) == SimpleLine_expected_length(b, <<"-">>)

SimpleError_decode(b) ==
    Bind(extract_simple_frame_data(b, <<"-">>), LAMBDA e :
        IF ~e.ok THEN DecErr(e.err, b)
        ELSE DecOk(ErrorF(SubSeq(b, 2, e.val)), Drop(b, e.val + CRLF_LEN)))

BulkString_expected_length(b) ==
    Bind(parse_length(b, <<"$">>), LAMBDA p :
        IF ~p.ok THEN p ELSE Ok(p.val[1] + CRLF_LEN + p.val[2] + CRLF_LEN))

\* The two bytes after the payload are dropped without being looked at.
BulkString_decode(b) ==
    Bind(parse_length(b, <<"$">>), LAMBDA p :
        IF ~p.ok THEN DecErr(p.err, b)
        ELSE LET end == p.val[1]
                 len == p.val[2]
                 remained == Drop(b, end + CRLF_LEN)
             IN  IF Len(remained) < len + CRLF_LEN THEN DecErr("NotComplete", b)
                 ELSE DecOk(BulkStringF(Take(remained, len)),
                            Drop(remained, len + CRLF_LEN)))

i64_expected_length(b) == SimpleLine_expected_length(b, <<":">>)

\* split_to comes before the parse: a parse error leaves the line consumed
i64_decode(b) ==
    Bind(extract_simple_frame_data(b, <<":">>), LAMBDA e :
        IF ~e.ok THEN DecErr(e.err, b)
        ELSE Bind(ParseInt(SubSeq(b, 2, e.val)), LAMBDA n :
                 IF ~n.ok THEN DecErr(n.err, Drop(b, e.val + CRLF_LEN))
                 ELSE DecOk(IntegerF(n.val), Drop(b, e.val + CRLF_LEN))))

bool_expected_length(b) ==
    IF starts_with(b, <<"#", "t", CR, LF>>) \/ starts_with(b, <<"#", "f", CR, LF>>)
    THEN Ok(4)
    ELSE Err("InvalidFrame")

bool_decode(b) ==
    Bind(extract_fixed_data(b, <<"#", "t", CR, LF>>), LAMBDA t :
        IF t.ok THEN DecOk(BooleanF(TRUE), t.rest)
        ELSE IF t.err = "NotComplete" THEN DecErr("NotComplete", b)
        ELSE Bind(extract_fixed_data(b, <<"#", "f", CR, LF>>), LAMBDA f :
                 IF f.ok THEN DecOk(BooleanF(FALSE), f.rest) ELSE DecErr(f.err, b)))

f64_expected_length(b) == SimpleLine_expected_length(b, <<",">>)

f64_decode(b) ==
    Bind(extract_simple_frame_data(b, <<",">>), LAMBDA e :
        IF ~e.ok THEN DecErr(e.err, b)
        ELSE Bind(ParseF64(SubSeq(b, 2, e.val)), LAMBDA x :
                 IF ~x.ok THEN DecErr(x.err, Drop(b, e.val + CRLF_LEN))
                 ELSE DecOk(DoubleF(x.val), Drop(b, e.val + CRLF_LEN))))

RespNull_expected_length(b) == Ok(3)

RespNull_decode(b) ==
    Bind(extract_fixed_data(b, <<"_", CR, LF>>), LAMBDA r :
        IF r.ok THEN DecOk(NullF, r.rest) ELSE DecErr(r.err, b))

RespNullArray_expected_length(b) == Ok(5)

RespNullArray_decode(b) ==
    Bind(extract_fixed_data(b, <<"*", "-", "1", CR, LF>>), LAMBDA r :
        IF r.ok THEN DecOk(NullArrayF, r.rest) ELSE DecErr(r.err, b))

\* `for _ in 0..len { let len = expected_length(data)?; data = &data[len..]; .. }`
\* The slice panics when the probed length exceeds the bytes that are there.
ProbeChildren(data, n, total) ==
    IF n = 0 THEN Ok(total)
    ELSE Bind(RespFrame_expected_length(data), LAMBDA r :
             IF ~r.ok THEN r
             ELSE IF r.val > Len(data) THEN Err("Panic")
             ELSE ProbeChildren(Drop(data, r.val), n - 1, total + r.val))

\* '%': one key and one value are probed, whatever the declared pair count
calc_total_length(b, end, len, prefix) ==
    IF prefix \in {"*", "~"}
    THEN ProbeChildren(Drop(b, end + CRLF_LEN), len, end + CRLF_LEN)
    ELSE IF prefix = "%"
    THEN Bind(SimpleString_expected_length(Drop(b, end + CRLF_LEN)), LAMBDA k :
             IF ~k.ok THEN k
             ELSE Bind(RespFrame_expected_length(Drop(b, end + CRLF_LEN + k.val)),
                       LAMBDA v :
                           IF ~v.ok THEN v ELSE Ok(end + CRLF_LEN + k.val + v.val)))
    ELSE Ok(len + CRLF_LEN)

\* `for _ in 0..len { frames.push(RespFrame::decode(buf)?) }`
DecodeFrames(b, n, acc) ==
    IF n = 0 THEN DecOk(acc, b)
    ELSE Bind(RespFrame_decode(b), LAMBDA r :
             IF ~r.ok THEN r ELSE DecodeFrames(r.rest, n - 1, Append(acc, r.val)))

\* `for _ in 0..len { key = SimpleString::decode; value = RespFrame::decode; insert }`
DecodePairs(b, n, map) ==
    IF n = 0 THEN DecOk(map, b)
    ELSE Bind(SimpleString_decode(b), LAMBDA k :
             IF ~k.ok THEN k
             ELSE Bind(RespFrame_decode(k.rest), LAMBDA v :
                      IF ~v.ok THEN v
                      ELSE DecodePairs(v.rest, n - 1,
                                       BTreeMap_insert(map, k.val.str, v.val))))

\* The body the three composite decoders share once the length line is parsed:
\* probe the total length, require that many bytes, advance past the length
\* line, decode the declared number of children.
DecodeComposite(b, p, prefix) ==
    Bind(calc_total_length(b, p[1], p[2], prefix), LAMBDA t :
        IF ~t.ok THEN DecErr(t.err, b)
        ELSE IF Len(b) < t.val THEN DecErr("NotComplete", b)
        ELSE IF prefix = "%"
        THEN Bind(DecodePairs(Drop(b, p[1] + CRLF_LEN), p[2], <<>>), LAMBDA r :
                 IF ~r.ok THEN r ELSE DecOk(MapF(r.val), r.rest))
        ELSE Bind(DecodeFrames(Drop(b, p[1] + CRLF_LEN), p[2], <<>>), LAMBDA r :
                 IF ~r.ok THEN r
                 ELSE DecOk(IF prefix = "*" THEN ArrayF(r.val) ELSE SetF(r.val), r.rest)))

\* `let (end, len) = parse_length(buf, PREFIX)?; calc_total_length(buf, end, len, PREFIX)`
Composite_expected_length(b, prefix) ==
    Bind(parse_length(b, <<prefix>>), LAMBDA p :
        IF ~p.ok THEN p ELSE calc_total_length(b, p.val[1], p.val[2], prefix))

Composite_decode(b, prefix) ==
    Bind(parse_length(b, <<prefix>>), LAMBDA p :
        IF ~p.ok THEN DecErr(p.err, b) ELSE DecodeComposite(b, p.val, prefix))

RespArray_expected_length(b) == Composite_expected_length(b, "*")

RespArray_decode(b) == Composite_decode(b, "*")

RespMap_expected_length(b) == Composite_expected_length(b, "%")

RespMap_decode(b) == Composite_decode(b, "%")

RespSet_expected_length(b) == Composite_expected_length(b, "~")

RespSet_decode(b) == Composite_decode(b, "~")

\* `match first { Ok(f) => Ok(f), Err(NotComplete) => Err(NotComplete),
\*                Err(_) => second(buf) }`
TryFirst(r, Second(_)) ==
    IF r.ok \/ r.err = "NotComplete" THEN r ELSE Second(r.rest)

\* RespFrame::decode: dispatch on the first byte; no arm for '_', and the '$'
\* arm calls BulkString::decode both times
RespFrame_decode(b) ==
    IF b = <<>> THEN DecErr("InvalidFrameType", b)
    ELSE CASE b[1] = "+" -> SimpleString_decode(b)
           [] b[1] = "-" -> SimpleError_decode(b)
           [] b[1] = ":" -> i64_decode(b)
           [] b[1] = "#" -> bool_decode(b)
           [] b[1] = "," -> f64_decode(b)
           [] b[1] = "$" -> TryFirst(BulkString_decode(b), BulkString_decode)
           [] b[1] = "*" -> TryFirst(RespNullArray_decode(b), RespArray_decode)
           [] b[1] = "%" -> RespMap_decode(b)
           [] b[1] = "~" -> RespSet_decode(b)
           [] OTHER -> DecErr("InvalidFrameType", b)

\* RespFrame::expected_length: an unknown first byte is reported as NotComplete
RespFrame_expected_length(b) ==
    IF b = <<>> THEN Err("NotComplete")
    ELSE CASE b[1] = "+" -> SimpleString_expected_length(b)
           [] b[1] = "-" -> SimpleError_expected_length(b)
           [] b[1] = ":" -> i64_expected_length(b)
           [] b[1] = "#" -> bool_expected_length(b)
           [] b[1] = "," -> f64_expected_length(b)
           [] b[1] = "$" -> BulkString_expected_length(b)
           [] b[1] = "*" -> RespArray_expected_length(b)
           [] b[1] = "%" -> RespMap_expected_length(b)
           [] b[1] = "~" -> RespSet_expected_length(b)
           [] OTHER -> Err("NotComplete")

(***************************************************************************)
(* RespArray as resp/array.rs has it: a negative count is the null array.  *)
(***************************************************************************)
\* A negative count returns the null array and leaves the buffer as it was.
array_rs_RespArray_decode(b) ==
    Bind(array_rs_parse_length(b, <<"*">>), LAMBDA p :
        IF ~p.ok THEN DecErr(p.err, b)
        ELSE IF p.val[2] < 0 THEN DecOk(ArrayF(<<>>), b)
        ELSE DecodeComposite(b, p.val, "*"))

array_rs_RespArray_expect_length(b) ==
    Bind(array_rs_parse_length(b, <<"*">>), LAMBDA p :
        IF ~p.ok THEN p
        ELSE IF p.val[2] < 0 THEN Ok(4)
        ELSE calc_total_length(b, p.val[1], p.val[2], "*"))

(***************************************************************************)
(* The frames and the bytes the model's client writes.                     *)
(***************************************************************************)
SeqsUpTo(S, n) == UNION {[1..k -> S] : k \in 0..n}

Texts == {<<>>, <<"a">>, <<"O", "K">>}
Bulks == {<<>>, <<"h", "i">>, <<"a", CR, LF>>}
Decs == {[m |-> 0, e |-> 0], [m |-> 5, e |-> -1], [m |-> -125, e |-> -1], [m |-> 3, e |-> 8]}
Keys == {<<"a">>, <<"b">>}
Ints == {0 - MaxInt, -1, 0, 5, MaxInt}

Scalars ==
    {SimpleStringF(t) : t \in Texts} \cup {ErrorF(t) : t \in Texts}
      \cup {IntegerF(i) : i \in Ints}
      \cup {BulkStringF(b) : b \in Bulks}
      \cup {NullF, NullArrayF, NullBulkStringF, BooleanF(TRUE), BooleanF(FALSE)}
      \cup {DoubleF(x) : x \in Decs}

\* children of the composites of depth one
Kids == {IntegerF(5), BulkStringF(<<"h", "i">>), BooleanF(TRUE), NullF}

\* children of the composites of depth two
Inner ==
    {ArrayF(<<BulkStringF(<<"h", "i">>), IntegerF(5)>>),
     SetF(<<BooleanF(TRUE)>>),
     MapF(<<<<<<"a">>, IntegerF(5)>>>>),
     MapF(<<<<<<"a">>, IntegerF(5)>>, <<<<"b">>, SimpleStringF(<<"a">>)>>>>)}

\* BTreeMap contents: pairs in strictly ascending key order
MapsOver(V) ==
    {ps \in SeqsUpTo(Keys \X V, MaxElems) :
        \A i \in 1..(Len(ps) - 1) : StrLess(ps[i][1], ps[i + 1][1])}

CompositesOver(V) ==
    {ArrayF(fs) : fs \in SeqsUpTo(V, MaxElems)}
      \cup {SetF(fs) : fs \in SeqsUpTo(V, MaxElems)}
      \cup {MapF(ps) : ps \in MapsOver(V)}

Frames == Scalars \cup CompositesOver(Kids) \cup CompositesOver(Inner)

\* frames of the chunked connection
FeedFrames ==
    {SimpleStringF(<<"O", "K">>), IntegerF(5), BulkStringF(<<"h", "i">>), BooleanF(FALSE),
     NullArrayF, DoubleF([m |-> 5, e |-> -1]),
     ArrayF(<<BulkStringF(<<"h", "i">>), IntegerF(5)>>),
     SetF(<<IntegerF(5)>>),
     MapF(<<<<<<"a">>, IntegerF(5)>>>>),
     MapF(<<<<<<"a">>, IntegerF(5)>>, <<<<"b">>, IntegerF(5)>>>>)}

\* bytes of a client that does not use the encoder
RawInputs ==
    {<<"*", "2", CR, LF, "x", "x", CR, LF, CR, LF>>,
     <<"*", "2", CR, LF, "!", "!", "!">>,
     <<"~", "1", CR, LF, "x", CR, LF>>,
     <<"%", "1", CR, LF, "+", "a", CR, LF, "x", CR, LF>>,
     <<"$", "-", "1", CR, LF, ":", "+", "5", CR, LF>>,
     <<"*", "-", "1", CR, LF, ":", "+", "5", CR, LF>>,
     <<"*", "1", CR, LF, "$", "-", "1", CR, LF>>,
     <<"*", "1", CR, LF, "*", "-", "1", CR, LF>>,
     <<"%", "1", CR, LF, "+", "a", CR, LF, "$", "-", "1", CR, LF>>,
     <<"*", "0", CR, LF>>,
     <<":", "a", "b", CR, LF>>,
     <<",", "x", CR, LF>>,
     <<"*", "1", CR, LF, ":", "x", CR, LF>>,
     <<"#", "x", CR, LF>>,
     <<"$", "x", CR, LF>>,
     <<"$", "2", CR, LF, "h", "i", "x", "y">>,
     <<"x", CR, LF>>,
     <<"%", "2", CR, LF, "+", "a", CR, LF, ":", "+", "5", CR, LF,
       "+", "a", CR, LF, ":", "+", "6", CR, LF>>,
     <<"%", "2", CR, LF, "+", "b", CR, LF, ":", "+", "5", CR, LF,
       "+", "a", CR, LF, "#", "t", CR, LF, "+", "O", "K", CR, LF>>,
     <<"*", "3", CR, LF, ":", "+", "1", CR, LF, ":", "+", "2", CR, LF, ":", "+", "3", CR, LF>>,
     <<"~", "2", CR, LF, ":", "2", CR, LF, ":", "1", CR, LF>>,
     <<"$", "0", CR, LF, "x", "y">>}

(***************************************************************************)
(* ApproximateFloat (resp/double.rs).  An f64 close to zero is the integer *)
(* number q of units of 1e-19 it holds, so that 1e-18 is 10 units and      *)
(* x * 1e18 is q / 10.  The values of the model are multiples of 4 units:  *)
(* no difference of two of them is 10 units and no q / 10 lies halfway     *)
(* between two integers, where the rounding of f64 arithmetic would decide.*)
(***************************************************************************)
\* f64::round: to the nearest integer, halfway cases away from zero
RoundTenth(q) == IF q >= 0 THEN (q + 5) \div 10 ELSE 0 - ((5 - q) \div 10)

\* PartialEq: (self.0 - other.0).abs() < 1e-18
ApproximateFloat_eq(a, b) == Abs(a - b) < 10

\* Hash: the i64 that is hashed, (self.0 * 1e18).round() as i64
ApproximateFloat_hash(a) == RoundTenth(a)

FloatValues == {0 - 8, 0 - 4, 0, 4, 8, 12, 16}

\* DashMap<ApproximateFloat, ()>: the keys stored.  A lookup runs eq on the
\* entries whose hash is the hash of k; an entry of another hash is compared
\* only when it collides with k in the table (collide), which the hasher's
\* seed decides.
FloatMatches(keys, k, collide) ==
    {e \in keys : /\ ApproximateFloat_eq(e, k)
                  /\ (ApproximateFloat_hash(e) = ApproximateFloat_hash(k) \/ collide)}

\* insert: an entry found keeps its key; else k becomes a new entry
FloatSet_insert(keys, k, collide) ==
    IF FloatMatches(keys, k, collide) # {} THEN keys ELSE keys \cup {k}

FloatSet_contains_key(keys, k, collide) == FloatMatches(keys, k, collide) # {}

NoFloats == [keys |-> {}, op |-> "none", x |-> 0, found |-> FALSE]

(***************************************************************************)
(* The server's state after main has bound the listener and built the      *)
(* Backend (main.rs, backend/mod.rs).                                      *)
(***************************************************************************)
Conns == 1..MaxConns

\* Backend::new(): three empty DashMaps
Backend_new == [map |-> <<>>, hmap |-> <<>>, set |-> <<>>]

NoCommand == [name |-> "none"]

\* a connection slot the accept loop has not yet used
NoConn ==
    [status |-> "none", pc |-> "idle", req |-> NullF, cmd |-> NoCommand,
     reply |-> NullF, err |-> "none", n |-> 0, done |-> {}, after_failure |-> FALSE]

Listening == [accepting |-> TRUE, accepted |-> 0]

\* no conversion and no Backend method has been called directly
NoApiCall == [op |-> "none", hist |-> <<>>]

(***************************************************************************)
(* The connection: a client that encodes frames, a stream that delivers    *)
(* them in chunks, and the codec calls of the server.                      *)
(***************************************************************************)
NoCall == [op |-> "none", before |-> <<>>]

Init ==
    /\ buf = <<>>
    /\ wire = <<>>
    /\ sent = <<>>
    /\ raw = FALSE
    /\ enc = <<>>
    /\ got = <<>>
    /\ last = NoCall
    /\ status = "open"
    /\ fset = NoFloats
    /\ backend = Backend_new
    /\ conns = [c \in Conns |-> NoConn]
    /\ listener = Listening
    /\ api = NoApiCall

\* The client encodes frame f (RespFrame::encode) and writes the bytes.
ClientEncode(f, impl) ==
    /\ status = "open"
    /\ ~raw
    /\ sent' = Append(sent, f)
    /\ enc' = enc \o encode(f, impl)
    /\ wire' = wire \o encode(f, impl)
    /\ UNCHANGED <<buf, raw, got, last, status, fset, backend, conns, listener, api>>

\* A client writes bytes of its own.
ClientRaw(bytes) ==
    /\ status = "open"
    /\ sent = <<>>
    /\ ~raw
    /\ raw' = TRUE
    /\ enc' = bytes
    /\ wire' = bytes
    /\ UNCHANGED <<buf, sent, got, last, status, fset, backend, conns, listener, api>>

\* The server reads the next n bytes of the stream into its buffer.
Receive(n) ==
    /\ status = "open"
    /\ n \in 1..Len(wire)
    /\ buf' = buf \o Take(wire, n)
    /\ wire' = Drop(wire, n)
    /\ last' = NoCall
    /\ UNCHANGED <<sent, raw, enc, got, status, fset, backend, conns, listener, api>>

StatusAfter(r) ==
    IF r.ok \/ r.err = "NotComplete" THEN "open"
    ELSE IF r.err = "Panic" THEN "panicked"
    ELSE "closed"

\* What a decode call with result r does to the connection.
DecodeCall(op, r) ==
    /\ last' = [op |-> op, before |-> buf, out |-> r]
    /\ buf' = r.rest
    /\ got' = IF r.ok THEN Append(got, r.val) ELSE got
    /\ status' = StatusAfter(r)
    /\ UNCHANGED <<wire, sent, raw, enc, fset, backend, conns, listener, api>>

\* What a probe call with result r does: the buffer is not touched.
ProbeCall(op, r) ==
    /\ last' = [op |-> op, before |-> buf, out |-> r]
    /\ status' = IF ~r.ok /\ r.err = "Panic" THEN "panicked" ELSE "open"
    /\ UNCHANGED <<buf, wire, sent, raw, enc, got, fset, backend, conns, listener, api>>

\* RespFrame::decode(&mut buf)
Decode ==
    /\ status = "open"
    /\ DecodeCall("decode", RespFrame_decode(buf))

\* RespFrame::expected_length(&buf)
Probe ==
    /\ status = "open"
    /\ ProbeCall("probe", RespFrame_expected_length(buf))

\* RespArray::decode(&mut buf) of resp/array.rs, called on an array header
\* (a call that succeeds without consuming can be repeated without end: the
\* model stops recording after MaxGot frames)
DecodeArray ==
    /\ status = "open"
    /\ Len(got) < MaxGot
    /\ starts_with(buf, <<"*">>)
    /\ DecodeCall("decode_array", array_rs_RespArray_decode(buf))

\* RespArray::expect_length(&buf) of resp/array.rs, called on an array header
ProbeArray ==
    /\ status = "open"
    /\ starts_with(buf, <<"*">>)
    /\ ProbeCall("probe_array", array_rs_RespArray_expect_length(buf))

SendOne ==
    /\ sent = <<>>
    /\ ~raw
    /\ \E f \in Frames, impl \in ArrayImpls : ClientEncode(f, impl)

SendRaw ==
    /\ sent = <<>>
    /\ ~raw
    /\ \E bytes \in RawInputs : ClientRaw(bytes)

ReceiveChunk == \E n \in 1..Len(wire) : Receive(n)

Next ==
    \/ SendOne
    \/ SendRaw
    \/ ReceiveChunk
    \/ Decode
    \/ Probe
    \/ DecodeArray
    \/ ProbeArray

Spec == Init /\ [][Next]_vars

(***************************************************************************)
(* The connection's feed loop: after every read the server decodes frames  *)
(* until the decoder reports NotComplete or the buffer is empty; a fatal   *)
(* error ends the connection.                                              *)
(***************************************************************************)
RECURSIVE Drain(_, _, _)
Drain(b, acc, call) ==
    IF b = <<>> THEN [buf |-> b, got |-> acc, last |-> call, status |-> "open"]
    ELSE Bind(RespFrame_decode(b), LAMBDA r :
             IF r.ok
             THEN Drain(r.rest, Append(acc, r.val),
                        [op |-> "decode", before |-> b, out |-> r])
             ELSE [buf |-> r.rest, got |-> acc,
                   last |-> [op |-> "decode", before |-> b, out |-> r],
                   status |-> StatusAfter(r)])

Drained(d) ==
    /\ buf' = d.buf
    /\ got' = d.got
    /\ last' = d.last
    /\ status' = d.status

FeedSend ==
    /\ Len(sent) < MaxFrames
    /\ \E f \in FeedFrames, impl \in ArrayImpls : ClientEncode(f, impl)

FeedRead ==
    /\ status = "open"
    /\ \E n \in 1..Len(wire) :
          /\ wire' = Drop(wire, n)
          /\ Drained(Drain(buf \o Take(wire, n), got, NoCall))
    /\ UNCHANGED <<sent, raw, enc, fset, backend, conns, listener, api>>

NextFeed == FeedSend \/ FeedRead

SpecFeed == Init /\ [][NextFeed]_vars

(***************************************************************************)
(* The shared Backend (backend/mod.rs).  A DashMap is the function from    *)
(* the keys it holds to their values; a String is its UTF-8 bytes.         *)
(***************************************************************************)
Has(m, k) == k \in DOMAIN m

\* DashMap::insert
Put(m, k, v) == [x \in DOMAIN m \cup {k} |-> IF x = k THEN v ELSE m[x]]

Some(v) == [some |-> TRUE, val |-> v]
None == [some |-> FALSE]

\* an entry call that stores a fresh default whether or not the key is held
DashMap_entry_insert_default(m, k, default) == Put(m, k, default)

\* DashMap::entry(key).or_default(): the value held, created empty if absent
DashMap_entry_or_default(m, k, default) == IF Has(m, k) THEN m ELSE Put(m, k, default)

RECURSIVE Pow10(_)
Pow10(n) == IF n = 0 THEN 1 ELSE 10 * Pow10(n - 1)

\* the units of 1e-19 in an f64 close to zero
Quanta(dec) == dec.m * Pow10(dec.e + 19)

\* Eq and Hash of RespFrame as a DashMap key: derived, a Double by ApproximateFloat
Frame_eq(f, g) ==
    IF f.kind = "Double" /\ g.kind = "Double"
    THEN ApproximateFloat_eq(Quanta(f.dec), Quanta(g.dec))
    ELSE f = g

Frame_hash(f) ==
    IF f.kind = "Double"
    THEN [kind |-> "Double", hashed |-> ApproximateFloat_hash(Quanta(f.dec))]
    ELSE f

\* DashMap<RespFrame, ()>: the members stored, looked up by Hash then Eq
FrameMatches(members, m, collide) ==
    {e \in members : Frame_eq(e, m) /\ (Frame_hash(e) = Frame_hash(m) \/ collide)}

FrameSet_insert(members, m, collide) ==
    IF FrameMatches(members, m, collide) # {} THEN members ELSE members \cup {m}

RECURSIVE FrameSet_insert_all(_, _, _)
FrameSet_insert_all(members, ms, collide) ==
    IF ms = <<>> THEN members
    ELSE FrameSet_insert_all(FrameSet_insert(members, ms[1], collide), Tail(ms), collide)

Backend_get(b, key) == IF Has(b.map, key) THEN Some(b.map[key]) ELSE None

\* a set that keeps the value the key already has
Backend_set_if_absent(b, key, value) ==
    IF Has(b.map, key) THEN b ELSE [b EXCEPT !.map = Put(b.map, key, value)]

Backend_set(b, key, value) == [b EXCEPT !.map = Put(b.map, key, value)]

Backend_hget(b, key, field) ==
    IF Has(b.hmap, key) /\ Has(b.hmap[key], field)
    THEN Some(b.hmap[key][field])
    ELSE None

\* hset, first line: self.hmap.entry(key).or_default()
Backend_hset_entry(b, key) ==
    [b EXCEPT !.hmap = DashMap_entry_or_default(b.hmap, key, <<>>)]

\* hset, second line: hmap.insert(field, value)
Backend_hset_insert(b, key, field, value) ==
    [b EXCEPT !.hmap = Put(b.hmap, key, Put(b.hmap[key], field, value))]

\* sadd, first line: self.set.entry(key).or_default()
Backend_sadd_entry(b, key) ==
    [b EXCEPT !.set = DashMap_entry_or_default(b.set, key, {})]

\* sadd, the loop: hset.insert(member, ())
Backend_sadd_insert(b, key, members, collide) ==
    [b EXCEPT !.set = Put(b.set, key, FrameSet_insert_all(b.set[key], members, collide))]

\* Backend::hset, the whole call
Backend_hset(b, key, field, value) ==
    Backend_hset_insert(Backend_hset_entry(b, key), key, field, value)

\* Backend::sadd, the whole call
Backend_sadd(b, key, members, collide) ==
    Backend_sadd_insert(Backend_sadd_entry(b, key), key, members, collide)

\* Backend::hmget: None without a hash at key, else one frame per field asked
Backend_hmget(b, key, fields) ==
    IF Has(b.hmap, key)
    THEN Some(ArrayF([i \in 1..Len(fields) |->
                         IF Has(b.hmap[key], fields[i]) THEN b.hmap[key][fields[i]]
                         ELSE NullF]))
    ELSE None

Backend_s_is_member(b, key, member, collide) ==
    Has(b.set, key) /\ FrameMatches(b.set[key], member, collide) # {}

(***************************************************************************)
(* Commands (cmd/echo.rs, cmd/set.rs; the shared helpers and the HSET and  *)
(* HGET commands are not in these files).                                  *)
(***************************************************************************)
InvalidByte == "0xFF"
ReplacementChar == "U+FFFD"

\* String::from_utf8: the bytes, unless one of them is no UTF-8
String_from_utf8(bytes) ==
    IF \E i \in 1..Len(bytes) : bytes[i] = InvalidByte THEN Err("Utf8Error") ELSE Ok(bytes)

\* String::from_utf8_lossy: an invalid byte becomes U+FFFD
String_from_utf8_lossy(bytes) ==
    [i \in 1..Len(bytes) |-> IF bytes[i] = InvalidByte THEN ReplacementChar ELSE bytes[i]]

N_echo == <<"e", "c", "h", "o">>
N_sadd == <<"s", "a", "d", "d">>
N_sismember == <<"s", "i", "s", "m", "e", "m", "b", "e", "r">>
N_hset == <<"h", "s", "e", "t">>
N_hget == <<"h", "g", "e", "t">>

RESP_OK == SimpleStringF(<<"O", "K">>)

usize_MAX == 2 ^ usize_BITS - 1

\* the builds: with overflow checks (debug) an overflowing usize operation
\* panics, without them (release) it wraps; indexing tells whether the name
\* check of validate_command indexes the array (value[i]) or asks for the
\* element (value.get(i)), which shows on an empty array only
Builds == [overflow_checks : BOOLEAN, indexing : BOOLEAN]

\* a - b on usize
usize_sub(a, b, build) ==
    IF a >= b THEN Ok(a - b)
    ELSE IF build.overflow_checks THEN Err("Panic")
    ELSE Ok(a - b + usize_MAX + 1)

\* a + b on usize
usize_add(a, b, build) ==
    IF a + b <= usize_MAX THEN Ok(a + b)
    ELSE IF build.overflow_checks THEN Err("Panic")
    ELSE Ok(a + b - usize_MAX - 1)

\* validate_command(&value, &[name], n_args)
validate_command(items, name, n_args, build) ==
    Bind(usize_add(n_args, 1, build), LAMBDA total :
        IF ~total.ok THEN total
        ELSE IF Len(items) # total.val THEN Err("InvalidArgument")
        ELSE IF items = <<>>
        THEN (IF build.indexing THEN Err("Panic") ELSE Err("InvalidCommand"))
        ELSE IF items[1].kind = "BulkString" /\ items[1].str = name THEN Ok(TRUE)
        ELSE Err("InvalidCommand"))

\* extract_args(value, start)
extract_args(items, start) == Drop(items, start)

Echo(message) == [name |-> "echo", message |-> message]
SAdd(key, members) == [name |-> "sadd", key |-> key, members |-> members]
SIsMember(key, member) == [name |-> "sismember", key |-> key, member |-> member]
HSet(key, field, value) == [name |-> "hset", key |-> key, field |-> field, value |-> value]
HGet(key, field) == [name |-> "hget", key |-> key, field |-> field]

\* impl TryFrom<RespArray> for Echo
Echo_try_from(items, build) ==
    Bind(validate_command(items, N_echo, 1, build), LAMBDA v :
        IF ~v.ok THEN v
        ELSE IF extract_args(items, 1)[1].kind # "BulkString" THEN Err("InvalidArgument")
        ELSE Bind(String_from_utf8(extract_args(items, 1)[1].str), LAMBDA m :
                 IF ~m.ok THEN m ELSE Ok(Echo(m.val))))

\* value.len() - 1, the argument count handed to validate_command
ArgCount(items, build) == usize_sub(Len(items), 1, build)

\* impl TryFrom<RespArray> for SAdd
SAdd_try_from(items, build) ==
    Bind(ArgCount(items, build), LAMBDA n_args :
        IF ~n_args.ok THEN n_args
        ELSE Bind(validate_command(items, N_sadd, n_args.val, build), LAMBDA v :
            IF ~v.ok THEN v
            ELSE IF Len(items) < 2 \/ items[2].kind # "BulkString"
            THEN Err("InvalidArgument")
            ELSE Ok(SAdd(String_from_utf8_lossy(items[2].str), Drop(items, 2)))))

\* impl TryFrom<RespArray> for SIsMember
SIsMember_try_from(items, build) ==
    Bind(ArgCount(items, build), LAMBDA n_args :
        IF ~n_args.ok THEN n_args
        ELSE Bind(validate_command(items, N_sismember, n_args.val, build), LAMBDA v :
            IF ~v.ok THEN v
            ELSE IF Len(items) < 3 \/ items[2].kind # "BulkString"
            THEN Err("InvalidArgument")
            ELSE Bind(String_from_utf8(items[2].str), LAMBDA k :
                     IF ~k.ok THEN k ELSE Ok(SIsMember(k.val, items[3])))))

HSet_try_from(items, build) ==
    Bind(validate_command(items, N_hset, 3, build), LAMBDA v :
        IF ~v.ok THEN v
        ELSE IF items[2].kind # "BulkString" \/ items[3].kind # "BulkString"
        THEN Err("InvalidArgument")
        ELSE Ok(HSet(items[2].str, items[3].str, items[4])))

HGet_try_from(items, build) ==
    Bind(validate_command(items, N_hget, 2, build), LAMBDA v :
        IF ~v.ok THEN v
        ELSE IF items[2].kind # "BulkString" \/ items[3].kind # "BulkString"
        THEN Err("InvalidArgument")
        ELSE Ok(HGet(items[2].str, items[3].str)))

\* the dispatch on the command name
Command_try_from(f, build) ==
    IF f.kind # "Array" \/ f.items = <<>> \/ f.items[1].kind # "BulkString"
    THEN Err("InvalidCommand")
    ELSE CASE f.items[1].str = N_echo -> Echo_try_from(f.items, build)
           [] f.items[1].str = N_sadd -> SAdd_try_from(f.items, build)
           [] f.items[1].str = N_sismember -> SIsMember_try_from(f.items, build)
           [] f.items[1].str = N_hset -> HSet_try_from(f.items, build)
           [] f.items[1].str = N_hget -> HGet_try_from(f.items, build)
           [] OTHER -> Err("InvalidCommand")

\* an execute that acknowledges instead of echoing
Echo_execute_acks(cmd) == RESP_OK

\* impl CommandExecutor for Echo
Echo_execute(cmd) == BulkStringF(cmd.message)

\* impl CommandExecutor for SIsMember
SIsMember_execute(cmd, b, collide) ==
    BooleanF(Backend_s_is_member(b, cmd.key, cmd.member, collide))

HGet_execute(cmd, b) ==
    IF Backend_hget(b, cmd.key, cmd.field).some
    THEN Backend_hget(b, cmd.key, cmd.field).val
    ELSE NullF

(***************************************************************************)
(* The server (main.rs): the accept loop spawns one task per connection;   *)
(* each task decodes a client message, converts it to a command and        *)
(* executes it on the shared Backend, until the client closes or the       *)
(* handler returns an error.                                               *)
(***************************************************************************)
B(str) == BulkStringF(str)
Tiny(m) == DoubleF([m |-> m, e |-> 0 - 19])

\* the command arrays the clients send
ClientFrames ==
    {ArrayF(<<B(N_echo), B(<<"h", "i">>)>>),
     ArrayF(<<B(N_echo), B(<<InvalidByte>>)>>),
     ArrayF(<<B(N_echo), IntegerF(5)>>),
     ArrayF(<<B(N_sadd), B(<<"s">>), B(<<"a">>), Tiny(4)>>),
     ArrayF(<<B(N_sadd), B(<<"s">>), B(<<"b">>)>>),
     ArrayF(<<B(N_sadd), B(<<"t">>), B(<<"a">>)>>),
     ArrayF(<<B(N_sismember), B(<<"s">>), B(<<"a">>)>>),
     ArrayF(<<B(N_sismember), B(<<"s">>), Tiny(8)>>),
     ArrayF(<<B(N_sismember), B(<<"t">>), B(<<"b">>)>>),
     ArrayF(<<B(N_hset), B(<<"k">>), B(<<"f">>), B(<<"v">>)>>),
     ArrayF(<<B(N_hset), B(<<"k">>), B(<<"g">>), B(<<"w">>)>>),
     ArrayF(<<B(N_hset), B(<<"j">>), B(<<"f">>), B(<<"w">>)>>),
     ArrayF(<<B(N_hget), B(<<"k">>), B(<<"f">>)>>)}

\* client messages that are no command: an unknown type byte, a length that is
\* no number, an Integer, and an array cut inside a bulk string
Malformed ==
    {<<"!", "x", CR, LF>>,
     <<"$", "x", CR, LF>>,
     <<":", "+", "5", CR, LF>>,
     <<"*", "1", CR, LF, "$", "2", CR, LF>>}

ClientMsgs == {encode(f, "encode.rs") : f \in ClientFrames} \cup Malformed

\* main: what the accept loop does with a handler's result (it logs it)
OnHandlerResult_propagates(l, result) ==
    IF result = "ok" THEN l ELSE [l EXCEPT !.accepting = FALSE]

OnHandlerResult(l, result) == l

\* the shard of the store holding key is write-locked by a task inside hset or sadd
Locked(store, key) ==
    \E c \in Conns : conns[c].pc = store /\ conns[c].cmd.key = key

SomeFailed == \E c \in Conns : conns[c].status \in {"failed", "panicked"}

\* listener.accept() and tokio::spawn of the connection's task
Accept ==
    /\ listener.accepting
    /\ listener.accepted < MaxConns
    /\ conns' = [conns EXCEPT ![listener.accepted + 1] =
                     [NoConn EXCEPT !.status = "running", !.after_failure = SomeFailed]]
    /\ listener' = [listener EXCEPT !.accepted = @ + 1]
    /\ UNCHANGED <<buf, wire, sent, raw, enc, got, last, status, fset, backend, api>>

\* the task of connection c ends: with Ok when the client closed, with an error
\* returned by the handler, or by a panic
Ended(c, how, req, err) ==
    /\ conns' = [conns EXCEPT ![c] = [@ EXCEPT !.status = how, !.req = req, !.err = err,
                                                !.cmd = NoCommand]]
    /\ listener' = OnHandlerResult(listener, IF how = "ended" THEN "ok" ELSE how)
    /\ UNCHANGED <<buf, wire, sent, raw, enc, got, last, status, fset, backend, api>>

\* the command replies at once
Replied(c, req, cmd, reply) ==
    /\ conns' = [conns EXCEPT ![c] = [@ EXCEPT !.req = req, !.cmd = cmd, !.reply = reply,
                                                !.n = @ + 1]]
    /\ UNCHANGED <<buf, wire, sent, raw, enc, got, last, status, fset, backend, listener, api>>

\* hset and sadd: the entry call takes the shard's write lock and creates the
\* key's inner map if absent; the lock is held until the method returns
Entered(c, req, cmd, store, b) ==
    /\ ~Locked(store, cmd.key)
    /\ backend' = b
    /\ conns' = [conns EXCEPT ![c] = [@ EXCEPT !.req = req, !.cmd = cmd, !.pc = store]]
    /\ UNCHANGED <<buf, wire, sent, raw, enc, got, last, status, fset, listener, api>>

\* Command::execute
Execute(c, req, cmd) ==
    CASE cmd.name = "echo" -> Replied(c, req, cmd, Echo_execute(cmd))
      [] cmd.name = "sismember" ->
             /\ ~Locked("set", cmd.key)
             /\ \E collide \in BOOLEAN :
                    Replied(c, req, cmd, SIsMember_execute(cmd, backend, collide))
      [] cmd.name = "hget" ->
             /\ ~Locked("hmap", cmd.key)
             /\ Replied(c, req, cmd, HGet_execute(cmd, backend))
      [] cmd.name = "hset" ->
             Entered(c, req, cmd, "hmap", Backend_hset_entry(backend, cmd.key))
      [] cmd.name = "sadd" ->
             Entered(c, req, cmd, "set", Backend_sadd_entry(backend, cmd.key))

Converted(c, req, p) ==
    IF p.ok THEN Execute(c, req, p.val) ELSE Ended(c, "failed", req, p.err)

Decoded(c, r) ==
    IF r.ok THEN \E build \in Builds : Converted(c, r.val, Command_try_from(r.val, build))
    ELSE /\ r.err # "NotComplete"
         /\ Ended(c, IF r.err = "Panic" THEN "panicked" ELSE "failed", NullF, r.err)

\* the handler of connection c reads one client message and serves it
Request ==
    \E c \in Conns :
        /\ conns[c].status = "running"
        /\ conns[c].pc = "idle"
        /\ conns[c].n < MaxReqs
        /\ \E msg \in ClientMsgs : Decoded(c, RespFrame_decode(msg))

WritesOf(cmd) ==
    IF cmd.name = "hset"
    THEN {[op |-> "hset", key |-> cmd.key, field |-> cmd.field, value |-> cmd.value]}
    ELSE {[op |-> "sadd", key |-> cmd.key, member |-> cmd.members[i]] :
             i \in 1..Len(cmd.members)}

Finished(c, b) ==
    /\ backend' = b
    /\ conns' = [conns EXCEPT ![c] = [@ EXCEPT !.pc = "idle", !.reply = RESP_OK,
                                                !.n = @ + 1,
                                                !.done = @ \cup WritesOf(conns[c].cmd)]]
    /\ UNCHANGED <<buf, wire, sent, raw, enc, got, last, status, fset, listener, api>>

\* the rest of hset or sadd, the lock released on return, and the OK reply
Finish ==
    \E c \in Conns :
        \/ /\ conns[c].pc = "hmap"
           /\ Finished(c, Backend_hset_insert(backend, conns[c].cmd.key,
                                               conns[c].cmd.field, conns[c].cmd.value))
        \/ /\ conns[c].pc = "set"
           /\ \E collide \in BOOLEAN :
                  Finished(c, Backend_sadd_insert(backend, conns[c].cmd.key,
                                                  conns[c].cmd.members, collide))

\* the client closes the connection: the handler returns Ok
Close ==
    \E c \in Conns :
        /\ conns[c].status = "running"
        /\ conns[c].pc = "idle"
        /\ Ended(c, "ended", conns[c].req, "none")

NextServer == Accept \/ Request \/ Finish \/ Close

SpecServer == Init /\ [][NextServer]_vars

(***************************************************************************)
(* The unit tests of the repository, evaluated on the model.               *)
(***************************************************************************)
B_OK == <<"+", "O", "K", CR, LF>>
B_set_hello ==
    <<"*", "2", CR, LF, "$", "3", CR, LF, "s", "e", "t", CR, LF,
      "$", "5", CR, LF, "h", "e", "l", "l", "o", CR, LF>>
F_set_hello ==
    ArrayF(<<BulkStringF(<<"s", "e", "t">>), BulkStringF(<<"h", "e", "l", "l", "o">>)>>)

UnitTests ==
    \* decode.rs: test_simple_string_decode
    /\ SimpleString_decode(B_OK) = DecOk(SimpleStringF(<<"O", "K">>), <<>>)
    /\ SimpleString_decode(<<"+", "h", "i", CR>>).err = "NotComplete"
    /\ SimpleString_decode(<<"+", "h", "i", CR, LF>>).val = SimpleStringF(<<"h", "i">>)
    \* decode.rs: test_integer_decode
    /\ i64_decode(<<":", "1", "2", "3", CR, LF>>).val = IntegerF(123)
    /\ i64_decode(<<":", "-", "1", "2", "3", CR>>).err = "NotComplete"
    /\ i64_decode(<<":", "-", "1", "2", "3", CR, LF>>).val = IntegerF(-123)
    \* decode.rs: test_bool_decode
    /\ bool_decode(<<"#", "t", CR, LF>>).val = BooleanF(TRUE)
    /\ bool_decode(<<"#", "f", CR>>).err = "NotComplete"
    /\ bool_decode(<<"#", "f", CR, LF>>).val = BooleanF(FALSE)
    \* decode.rs: test_double_decode
    /\ f64_decode(<<",", "1", "2", "3", ".", "4", "5", "6", CR, LF>>).val
           = DoubleF([m |-> 123456, e |-> -3])
    \* decode.rs: test_array_encode; array.rs: test_array_decode
    /\ RespArray_decode(B_set_hello) = DecOk(F_set_hello, <<>>)
    /\ array_rs_RespArray_decode(B_set_hello) = DecOk(F_set_hello, <<>>)
    /\ array_rs_RespArray_decode(Take(B_set_hello, 13)).err = "NotComplete"
    \* array.rs: test_null_array_decode, test_null_array_encode, test_array_encode
    /\ array_rs_RespArray_decode(<<"*", "-", "1", CR, LF>>).val = ArrayF(<<>>)
    /\ array_rs_RespArray_encode(<<>>, "array.rs") = <<"*", "-", "1", CR, LF>>
    /\ encode(F_set_hello, "array.rs") = B_set_hello
    \* encode.rs: test_integer_encode, test_double_encode, test_bulk_string_encode
    /\ encode(IntegerF(123), "encode.rs") = <<":", "+", "1", "2", "3", CR, LF>>
    /\ encode(IntegerF(-123), "encode.rs") = <<":", "-", "1", "2", "3", CR, LF>>
    /\ encode(DoubleF([m |-> 123456, e |-> -3]), "encode.rs")
           = <<",", "+", "1", ".", "2", "3", "4", "5", "6", "e", "2", CR, LF>>
    /\ encode(DoubleF([m |-> -123456, e |-> -13]), "encode.rs")
           = <<",", "-", "1", ".", "2", "3", "4", "5", "6", "e", "-", "8", CR, LF>>
    /\ encode(BulkStringF(<<"h", "i">>), "encode.rs") = <<"$", "2", CR, LF, "h", "i", CR, LF>>
    \* encode.rs: test_map_encode2, test_set_encode
    /\ encode(MapF(BTreeMap_insert(BTreeMap_insert(<<>>, <<"b">>, SimpleStringF(<<"O", "K">>)),
                                   <<"a">>, IntegerF(5))), "encode.rs")
           = <<"%", "2", CR, LF, "+", "a", CR, LF, ":", "+", "5", CR, LF,
               "+", "b", CR, LF, "+", "O", "K", CR, LF>>
    /\ encode(SetF(<<IntegerF(5), SimpleStringF(<<"O", "K">>)>>), "encode.rs")
           = <<"~", "2", CR, LF, ":", "+", "5", CR, LF, "+", "O", "K", CR, LF>>

UnitTestsHold == UnitTests

(***************************************************************************)
(* Properties.                                                             *)
(***************************************************************************)
IsPrefix(p, q) == Len(p) <= Len(q) /\ \A i \in 1..Len(p) : p[i] = q[i]

\* the one frame the client encoded, when it encoded exactly one
OneFrame == ~raw /\ Len(sent) = 1

\* the call was given the first bytes of what the client wrote, nothing consumed
OnWritten(call) == call.before \o wire = enc

Failed(call, errs) == ~call.out.ok /\ call.out.err \in errs

RECURSIVE HasEmptyArray(_)
HasEmptyArray(f) ==
    CASE f.kind = "Array" ->
             f.items = <<>> \/ \E i \in 1..Len(f.items) : HasEmptyArray(f.items[i])
      [] f.kind = "Set" -> \E i \in 1..Len(f.items) : HasEmptyArray(f.items[i])
      [] f.kind = "Map" -> \E i \in 1..Len(f.pairs) : HasEmptyArray(f.pairs[i][2])
      [] OTHER -> FALSE

NullBulkBytes == <<"$", "-", "1", CR, LF>>
NullArrayBytes == <<"*", "-", "1", CR, LF>>
KnownPrefixes == {"+", "-", ":", "$", "*", "_", "#", ",", "%", "~"}

\* C1: decode on a buffer holding exactly encode(f), f well-formed and holding no
\* empty Array, succeeds and returns a frame equal to f.
C1_RoundTrip ==
    (last.op = "decode" /\ OneFrame /\ last.before = enc /\ ~HasEmptyArray(sent[1]))
        => (last.out.ok /\ last.out.val = sent[1])

\* C2: decode on a strict byte-prefix of encode(f) returns NotComplete: no frame,
\* no fatal error (and no panic).
C2_IncompleteSafety ==
    (last.op = "decode" /\ OneFrame /\ OnWritten(last) /\ wire # <<>>)
        => Failed(last, {"NotComplete"})

\* C3: whenever decode returns an error, NotComplete or fatal, the buffer is
\* exactly what it was before the call.
C3_FailureConsumesNothing ==
    (last.op = "decode" /\ Failed(last, {"NotComplete"} \cup FatalErrors))
        => last.out.rest = last.before

\* C4: after a successful decode the number of bytes removed from the front of the
\* buffer is the value expected_length returns on the original buffer.
C4_Exactness ==
    (last.op = "decode" /\ last.out.ok)
        => RespFrame_expected_length(last.before)
               = Ok(Len(last.before) - Len(last.out.rest))

\* C5: frames f1..fn written back to back and read in arbitrary chunks are obtained
\* by the feed loop exactly and in order: the connection stays open, the frames
\* decoded so far are the first frames sent, the bytes not yet decoded are
\* untouched, and once every byte is read every frame is decoded and the buffer is
\* empty.
C5_ChunkingIndependence ==
    /\ status = "open"
    /\ IsPrefix(got, sent)
    /\ EncodeAll(got, "encode.rs") \o buf \o wire = enc
    /\ (wire = <<>> => got = sent /\ buf = <<>>)

\* C6: on "*2\r\n" followed by bytes that begin no frame, decode and
\* expected_length return a fatal error, not NotComplete.
C6_FatalClassification ==
    (/\ last.op \in {"decode", "probe"}
     /\ starts_with(last.before, <<"*", "2", CR, LF>>)
     /\ Len(last.before) > 4
     /\ last.before[5] \notin KnownPrefixes)
        => Failed(last, FatalErrors)

\* C7: a buffer starting with "$-1\r\n" decodes to NullBulkString and one starting
\* with "*-1\r\n" to NullArray, each consuming exactly 5 bytes.
C7_NullFormPriority ==
    /\ (last.op = "decode" /\ starts_with(last.before, NullBulkBytes))
           => last.out = DecOk(NullBulkStringF, Drop(last.before, 5))
    /\ (last.op = "decode" /\ starts_with(last.before, NullArrayBytes))
           => last.out = DecOk(NullArrayF, Drop(last.before, 5))

\* C8: expected_length on the encoding of a Map of k pairs returns the full byte
\* span of the map, for every k >= 0.
C8_MapProbe ==
    (last.op = "probe" /\ OneFrame /\ sent[1].kind = "Map" /\ last.before = enc)
        => last.out = Ok(Len(enc))

\* C9: the prober returns exactly 5 for a buffer starting with "$-1\r\n" or
\* "*-1\r\n", at top level and for such a child of a composite (so "*1\r\n$-1\r\n"
\* and "*1\r\n*-1\r\n" probe to 9).
C9_NullSentinelProbe ==
    /\ (/\ last.op \in {"probe", "probe_array"}
        /\ \/ starts_with(last.before, NullBulkBytes)
           \/ starts_with(last.before, NullArrayBytes))
           => last.out = Ok(5)
    /\ (/\ last.op \in {"probe", "probe_array"}
        /\ \/ last.before = <<"*", "1", CR, LF>> \o NullBulkBytes
           \/ last.before = <<"*", "1", CR, LF>> \o NullArrayBytes)
           => last.out = Ok(9)

\* C10: encoding an Array of zero elements produces "*-1\r\n"; a non-empty Array of
\* n children produces "*<n>\r\n" followed by the children's encodings in order.
C10_EmptyArrayEncoding ==
    (OneFrame /\ sent[1].kind = "Array")
        => enc = IF sent[1].items = <<>> THEN NullArrayBytes
                 ELSE <<"*">> \o NatToStr(Len(sent[1].items)) \o CRLF
                          \o EncodeAll(sent[1].items, "array.rs")

(***************************************************************************)
(* Composite headers and their children as they stand on the wire.         *)
(***************************************************************************)
CompositePrefixes == {"*", "~", "%"}

IsCompositeBuffer(b) ==
    /\ b # <<>>
    /\ b[1] \in CompositePrefixes
    /\ parse_length(b, <<b[1]>>).ok

\* the count k a composite header declares, and the bytes after the header
DeclaredCount(b) == parse_length(b, <<b[1]>>).val[2]
AfterHeader(b) == Drop(b, parse_length(b, <<b[1]>>).val[1] + CRLF_LEN)

\* the bytes a successful decode call took from the front of the buffer
Consumed(call) == Take(call.before, Len(call.before) - Len(call.out.rest))

\* the <<key, value>> pairs of n consecutive wire pairs, in wire order
RECURSIVE WirePairs(_, _, _)
WirePairs(b, n, acc) ==
    IF n = 0 THEN DecOk(acc, b)
    ELSE Bind(SimpleString_decode(b), LAMBDA k :
             IF ~k.ok THEN k
             ELSE Bind(RespFrame_decode(k.rest), LAMBDA v :
                      IF ~v.ok THEN v
                      ELSE WirePairs(v.rest, n - 1, Append(acc, <<k.val.str, v.val>>))))

ChildCount(f) == IF f.kind = "Map" THEN Len(f.pairs) ELSE Len(f.items)

IsComposite(f) == f.kind \in {"Array", "Set", "Map"}

\* C11 (first half): a successful decode of an Array or Set header declaring k
\* holds exactly k children, and of a Map header declaring k consumed exactly k
\* pairs.
C11_CountKept ==
    (last.op = "decode" /\ last.out.ok /\ IsComposite(last.out.val)
        /\ IsCompositeBuffer(last.before))
        => /\ last.out.val.kind \in {"Array", "Set"}
                => Len(last.out.val.items) = DeclaredCount(last.before)
           /\ last.out.val.kind = "Map"
                => Bind(WirePairs(AfterHeader(Consumed(last)),
                                  DeclaredCount(last.before), <<>>),
                        LAMBDA w : w.ok /\ w.rest = <<>>)
           /\ (OneFrame /\ last.before = enc) => last.out.val = sent[1]

\* C11: decode of a composite never truncates: on success the count is kept
\* (C11_CountKept), and on a buffer that holds fewer children than its header
\* declares decode returns NotComplete or a parse error.
C11_NoSilentTruncation ==
    /\ C11_CountKept
    /\ (last.op = "decode" /\ OneFrame /\ IsComposite(sent[1])
            /\ OnWritten(last) /\ wire # <<>> /\ IsCompositeBuffer(last.before))
           => Failed(last, {"NotComplete"} \cup FatalErrors)

NullBytes == <<"_", CR, LF>>

\* C17: a buffer starting with "_\r\n" decodes to Null consuming 3 bytes and probes
\* to 3; "*1\r\n_\r\n" probes to 8 and decodes to the Array holding Null.
C17_NullDispatch ==
    /\ (last.op = "decode" /\ starts_with(last.before, NullBytes))
           => last.out = DecOk(NullF, Drop(last.before, 3))
    /\ (last.op = "probe" /\ starts_with(last.before, NullBytes))
           => last.out = Ok(3)
    /\ (last.op = "decode" /\ last.before = <<"*", "1", CR, LF>> \o NullBytes)
           => last.out = DecOk(ArrayF(<<NullF>>), <<>>)
    /\ (last.op = "probe" /\ last.before = <<"*", "1", CR, LF>> \o NullBytes)
           => last.out = Ok(8)

\* C18: a buffer holding exactly "*0\r\n", "~0\r\n" or "%0\r\n" decodes to the
\* empty Array, Set or Map, consuming its 4 bytes; decode does not answer
\* NotComplete.
C18_ZeroCountProgress ==
    /\ (last.op = "decode" /\ last.before = <<"*", "0", CR, LF>>)
           => last.out = DecOk(ArrayF(<<>>), <<>>)
    /\ (last.op = "decode" /\ last.before = <<"~", "0", CR, LF>>)
           => last.out = DecOk(SetF(<<>>), <<>>)
    /\ (last.op = "decode" /\ last.before = <<"%", "0", CR, LF>>)
           => last.out = DecOk(MapF(<<>>), <<>>)

WireKeys(ps) == {ps[i][1] : i \in 1..Len(ps)}

\* the value of the last wire pair that carries key k
LastValue(ps, k) ==
    ps[CHOOSE i \in 1..Len(ps) :
           ps[i][1] = k /\ \A j \in (i + 1)..Len(ps) : ps[j][1] # k][2]

\* every value of the wire pairs is a frame the length prober accepts
RECURSIVE ValuesProbe(_, _)
ValuesProbe(b, n) ==
    IF n = 0 THEN TRUE
    ELSE Bind(SimpleString_decode(b), LAMBDA k :
             /\ k.ok
             /\ RespFrame_expected_length(k.rest).ok
             /\ Bind(RespFrame_decode(k.rest), LAMBDA v :
                     v.ok /\ ValuesProbe(v.rest, n - 1)))

\* the buffer holds a Map header declaring k pairs followed by k pairs that the
\* decoder and the prober accept one by one
HoldsWirePairs(b) ==
    /\ IsCompositeBuffer(b)
    /\ b[1] = "%"
    /\ ValuesProbe(AfterHeader(b), DeclaredCount(b))

MapIsLastWins(f, ps) ==
    /\ f.kind = "Map"
    /\ Len(f.pairs) = Cardinality(WireKeys(ps))
    /\ \A i \in 1..Len(f.pairs) :
           /\ f.pairs[i][1] \in WireKeys(ps)
           /\ f.pairs[i][2] = LastValue(ps, f.pairs[i][1])

\* C19: a Map buffer declaring k pairs with distinct keys decodes to k entries;
\* with a repeated key (k >= 2) decode still succeeds, consumes all k pairs, and
\* the Map holds one entry per key with the value of the later pair.
C19_RepeatedKey ==
    (last.op = "decode" /\ HoldsWirePairs(last.before))
        => Bind(WirePairs(AfterHeader(last.before), DeclaredCount(last.before), <<>>),
                LAMBDA w :
                   /\ Cardinality(WireKeys(w.val)) < Len(w.val) => last.out.ok
                   /\ last.out.ok =>
                          /\ last.out.rest = w.rest
                          /\ MapIsLastWins(last.out.val, w.val)
                          /\ Cardinality(WireKeys(w.val)) = Len(w.val)
                                 => Len(last.out.val.pairs) = DeclaredCount(last.before))

C19_Witness ==
    /\ last.op = "decode"
    /\ HoldsWirePairs(last.before)
    /\ DeclaredCount(last.before) = 2
    /\ last.out.ok
    /\ last.out.val = MapF(<<<<<<"a">>, IntegerF(6)>>>>)
    /\ last.out.rest = <<>>

\* C20: BulkString decode of "$<n>\r\n" followed by at least n+2 bytes succeeds
\* only when the two bytes after the n payload bytes are CR LF; otherwise the
\* result is a fatal error and the buffer is left as it was.
C20_BulkTerminator ==
    (/\ last.op = "decode"
     /\ starts_with(last.before, <<"$">>)
     /\ parse_length(last.before, <<"$">>).ok
     /\ Len(AfterHeader(last.before)) >= DeclaredCount(last.before) + CRLF_LEN)
        => Bind(DeclaredCount(last.before), LAMBDA n :
               IF SubSeq(AfterHeader(last.before), n + 1, n + CRLF_LEN) = CRLF
               THEN last.out = DecOk(BulkStringF(Take(AfterHeader(last.before), n)),
                                     Drop(AfterHeader(last.before), n + CRLF_LEN))
               ELSE Failed(last, FatalErrors) /\ last.out.rest = last.before)

(***************************************************************************)
(* test_double_set (cmd/set.rs): calls on a DashMap<ApproximateFloat, ()>. *)
(***************************************************************************)
FloatCall(op, x, keys, found) ==
    /\ fset' = [keys |-> keys, op |-> op, x |-> x, found |-> found]
    /\ UNCHANGED <<buf, wire, sent, raw, enc, got, last, status, backend, conns, listener, api>>

FloatInsert ==
    \E x \in FloatValues, collide \in BOOLEAN :
        FloatCall("insert", x, FloatSet_insert(fset.keys, x, collide),
                  FloatSet_contains_key(fset.keys, x, collide))

FloatContains ==
    \E x \in FloatValues, collide \in BOOLEAN :
        FloatCall("contains_key", x, fset.keys,
                  FloatSet_contains_key(fset.keys, x, collide))

\* remove: the entry found, if any, is taken out
FloatRemove ==
    \E x \in FloatValues, collide \in BOOLEAN :
        IF FloatMatches(fset.keys, x, collide) = {}
        THEN FloatCall("remove", x, fset.keys, FALSE)
        ELSE \E e \in FloatMatches(fset.keys, x, collide) :
                 FloatCall("remove", x, fset.keys \ {e}, TRUE)

NextFloat == FloatInsert \/ FloatContains \/ FloatRemove

SpecFloat == Init /\ [][NextFloat]_vars

\* the values the calls so far have stored or been given
FloatsUsed == fset.keys \cup {fset.x}

\* C12: ApproximateFloat values equal under the epsilon rule hash the same
\* quantity round(a * 1e18), and epsilon equality is an equivalence (reflexive,
\* symmetric, transitive), for the values used as DashMap keys.
C12_HashEqConsistent ==
    /\ \A a, b \in FloatsUsed :
           ApproximateFloat_eq(a, b) => ApproximateFloat_hash(a) = ApproximateFloat_hash(b)
    /\ \A a \in FloatsUsed : ApproximateFloat_eq(a, a)
    /\ \A a, b \in FloatsUsed : ApproximateFloat_eq(a, b) => ApproximateFloat_eq(b, a)
    /\ \A a, b, c \in FloatsUsed :
           (ApproximateFloat_eq(a, b) /\ ApproximateFloat_eq(b, c)) => ApproximateFloat_eq(a, c)

(***************************************************************************)
(* Properties of the server.                                               *)
(***************************************************************************)
AllDone == UNION {conns[c].done : c \in Conns}

\* the members the SADDs completed so far have added to key
AddedTo(key) == {w.member : w \in {d \in AllDone : d.op = "sadd" /\ d.key = key}}

\* this step is the reply of connection c to a command
RepliedNow(c) == conns'[c].n = conns[c].n + 1

\* this step is the handler of connection c ending with an error or a panic
FailedNow(c) ==
    conns[c].status = "running" /\ conns'[c].status \in {"failed", "panicked"}

\* C13: SISMEMBER replies true exactly when an earlier SADD on the same key
\* included a member equal to the one asked for (false for a member never added
\* and for a key never the target of SADD); SADD always replies OK.
C13_SetMembership ==
    [][\A c \in Conns :
          RepliedNow(c) =>
             /\ conns'[c].cmd.name = "sismember" =>
                    conns'[c].reply =
                        BooleanF(\E m \in AddedTo(conns'[c].cmd.key) :
                                    Frame_eq(m, conns'[c].cmd.member))
             /\ conns'[c].cmd.name = "sadd" => conns'[c].reply = RESP_OK]_vars

\* C14: when the handler of one connection ends with an error, only that task
\* ends: the accept loop keeps accepting, the other connections' tasks are as
\* they were, and the backend's stores are unchanged by the failed message.
C14_ConnectionIsolation ==
    /\ []listener.accepting
    /\ [][\A c \in Conns :
            FailedNow(c) =>
               /\ backend' = backend
               /\ listener' = listener
               /\ \A d \in Conns \ {c} : conns'[d] = conns[d]]_vars

C14_Witness ==
    \E c, d \in Conns :
        /\ conns[c].status \in {"failed", "panicked"}
        /\ conns[d].status = "running"
        /\ conns[d].after_failure
        /\ conns[d].n > 0
        /\ backend.hmap # <<>>

HSetValues(key, field) ==
    {w.value : w \in {d \in AllDone : d.op = "hset" /\ d.key = key /\ d.field = field}}

\* every write a connection was answered OK for is in the backend
WritesVisible ==
    \A w \in AllDone :
        IF w.op = "hset"
        THEN /\ Backend_hget(backend, w.key, w.field).some
             /\ Backend_hget(backend, w.key, w.field).val \in HSetValues(w.key, w.field)
        ELSE /\ Has(backend.set, w.key)
             /\ \E e \in backend.set[w.key] : Frame_eq(e, w.member)

SameAt(m1, m2, k) == Has(m1, k) /\ Has(m2, k) /\ m1[k] = m2[k]

WritingNow(store, k) ==
    \E c \in Conns :
        /\ conns'[c] # conns[c]
        /\ conns'[c].cmd.name = (IF store = "hmap" THEN "hset" ELSE "sadd")
        /\ conns'[c].cmd.key = k

\* a key's value changes only in a step of an hset or sadd on that key
KeysIndependent ==
    /\ backend'.map = backend.map
    /\ \A k \in DOMAIN backend.hmap \cup DOMAIN backend'.hmap :
           SameAt(backend.hmap, backend'.hmap, k) \/ WritingNow("hmap", k)
    /\ \A k \in DOMAIN backend.set \cup DOMAIN backend'.set :
           SameAt(backend.set, backend'.set, k) \/ WritingNow("set", k)

\* C15: no lost updates: under every interleaving of the connections, hset calls
\* on one key with different fields all stay visible to hget, sadd calls on one
\* key leave all their members present, and an operation on one key never
\* changes another key's value.
C15_NoLostUpdates == []WritesVisible /\ [][KeysIndependent]_vars

C15_Witness ==
    \E c, d \in Conns :
        /\ c # d
        /\ [op |-> "hset", key |-> <<"k">>, field |-> <<"f">>, value |-> B(<<"v">>)]
               \in conns[c].done
        /\ [op |-> "hset", key |-> <<"k">>, field |-> <<"g">>, value |-> B(<<"w">>)]
               \in conns[d].done
        /\ [op |-> "sadd", key |-> <<"s">>, member |-> B(<<"b">>)] \in conns[c].done
        /\ [op |-> "sadd", key |-> <<"s">>, member |-> B(<<"a">>)] \in conns[d].done
        /\ DOMAIN backend.hmap[<<"k">>] = {<<"f">>, <<"g">>}

\* this step is the handler of connection c serving an array [echo, x]
EchoNow(c) ==
    /\ conns[c].status = "running"
    /\ RepliedNow(c) \/ conns'[c].status = "failed"
    /\ conns'[c].req.kind = "Array"
    /\ Len(conns'[c].req.items) = 2
    /\ conns'[c].req.items[1] = B(N_echo)

EchoesNow(c, m) ==
    /\ conns'[c].cmd = Echo(m)
    /\ conns'[c].reply = BulkStringF(m)
    /\ conns'[c].status = "running"
    /\ backend' = backend

RejectsNow(c, err) ==
    /\ conns'[c].err = err
    /\ conns'[c].status = "failed"
    /\ backend' = backend

\* C16 as stated: [echo, BulkString m] converts to Echo with message m, and its
\* execution replies BulkString(m) and leaves the backend unchanged; [echo, x]
\* with x no BulkString is refused with InvalidArgument.
C16_Echo ==
    [][\A c \in Conns :
          EchoNow(c) =>
             IF conns'[c].req.items[2].kind = "BulkString"
             THEN EchoesNow(c, conns'[c].req.items[2].str)
             ELSE RejectsNow(c, "InvalidArgument")]_vars

\* C16 amended: the same for a BulkString m that is valid UTF-8; an m that is
\* not valid UTF-8 is refused with the UTF-8 error of String::from_utf8.
C16_EchoUtf8 ==
    [][\A c \in Conns :
          EchoNow(c) =>
             IF conns'[c].req.items[2].kind # "BulkString"
             THEN RejectsNow(c, "InvalidArgument")
             ELSE IF String_from_utf8(conns'[c].req.items[2].str).ok
             THEN EchoesNow(c, conns'[c].req.items[2].str)
             ELSE RejectsNow(c, "Utf8Error")]_vars

C16_Witness ==
    \E c, d \in Conns :
        /\ conns[c].cmd = Echo(<<"h", "i">>)
        /\ conns[c].reply = B(<<"h", "i">>)
        /\ conns[c].n = 2
        /\ backend.hmap # <<>>
        /\ conns[d].status = "failed"
        /\ conns[d].err \in {"Utf8Error", "InvalidArgument"}

(***************************************************************************)
(* The command conversions called directly (cmd/set.rs): any RespArray,    *)
(* the empty one included, under any build.                                *)
(***************************************************************************)
CommandErrors == {"InvalidArgument", "InvalidCommand", "Utf8Error"}

\* the frames of the arrays handed to the conversions
CmdItems ==
    {B(N_sadd), B(N_sismember), B(<<"s">>), B(<<InvalidByte>>), IntegerF(5)}

\* RespArray values of up to three frames
CmdArrays == SeqsUpTo(CmdItems, 3)

TryFromCall(op, items, build, result) ==
    /\ api' = [op |-> op, items |-> items, build |-> build,
               n_args |-> ArgCount(items, build), result |-> result]
    /\ UNCHANGED <<codecVars, fset, serverVars>>

\* SAdd::try_from(RespArray::new(items))
SAddTryFrom ==
    \E items \in CmdArrays, build \in Builds :
        TryFromCall("SAdd::try_from", items, build, SAdd_try_from(items, build))

\* SIsMember::try_from(RespArray::new(items))
SIsMemberTryFrom ==
    \E items \in CmdArrays, build \in Builds :
        TryFromCall("SIsMember::try_from", items, build, SIsMember_try_from(items, build))

NextCmd == SAddTryFrom \/ SIsMemberTryFrom

SpecCmd == Init /\ [][NextCmd]_vars

TryFromCalled == api.op \in {"SAdd::try_from", "SIsMember::try_from"}

\* C21: SAdd::try_from and SIsMember::try_from are total: for every RespArray,
\* the empty one and the one holding only the command name included, they
\* return a command or a CommandError, never panic, and the argument count
\* they compute is the array's length minus one, never wrapped around.
C21_ParsingTotal ==
    TryFromCalled =>
        /\ api.result.ok \/ api.result.err \in CommandErrors
        /\ api.n_args.ok /\ api.n_args.val + 1 = Len(api.items)

(***************************************************************************)
(* The Backend called directly (backend/mod.rs): a sequence of set, hset   *)
(* and sadd calls, and the reads after it.  api.hist is the sequence of    *)
(* the writes made so far.                                                 *)
(***************************************************************************)
BackendKeys == {<<"k">>, <<"j">>}
BackendFields == {<<"f">>, <<"g">>}
BackendValues == {B(<<"v">>), IntegerF(5)}
BackendMembers == {B(<<"a">>), IntegerF(5)}
FieldLists == {<<>>, <<<<"f">>>>, <<<<"g">>, <<"f">>>>, <<<<"h">>, <<"g">>>>}

Written(call, b) ==
    /\ Len(api.hist) < MaxCalls
    /\ backend' = b
    /\ api' = [op |-> call.op, hist |-> Append(api.hist, call)]
    /\ UNCHANGED <<codecVars, fset, conns, listener>>

Read(op, key, arg, result) ==
    /\ api' = [op |-> op, hist |-> api.hist, key |-> key, arg |-> arg, result |-> result]
    /\ UNCHANGED <<codecVars, fset, serverVars>>

\* backend.set(key, value)
BackendSet ==
    \E key \in BackendKeys, value \in BackendValues :
        Written([op |-> "set", key |-> key, value |-> value],
                Backend_set(backend, key, value))

\* backend.hset(key, field, value)
BackendHSet ==
    \E key \in BackendKeys, field \in BackendFields, value \in BackendValues :
        Written([op |-> "hset", key |-> key, field |-> field, value |-> value],
                Backend_hset(backend, key, field, value))

\* backend.sadd(key, members)
BackendSAdd ==
    \E key \in BackendKeys, members \in SeqsUpTo(BackendMembers, 1), collide \in BOOLEAN :
        Written([op |-> "sadd", key |-> key, members |-> members],
                Backend_sadd(backend, key, members, collide))

\* backend.get(key)
BackendGet ==
    \E key \in BackendKeys : Read("get", key, <<>>, Backend_get(backend, key))

\* backend.hget(key, field)
BackendHGet ==
    \E key \in BackendKeys, field \in BackendFields :
        Read("hget", key, field, Backend_hget(backend, key, field))

\* backend.hmget(key, fields)
BackendHMGet ==
    \E key \in BackendKeys, fields \in FieldLists :
        Read("hmget", key, fields, Backend_hmget(backend, key, fields))

\* backend.s_is_member(key, member)
BackendSIsMember ==
    \E key \in BackendKeys, member \in BackendMembers, collide \in BOOLEAN :
        Read("s_is_member", key, member,
             Backend_s_is_member(backend, key, member, collide))

NextBackend ==
    \/ BackendSet \/ BackendHSet \/ BackendSAdd
    \/ BackendGet \/ BackendHGet \/ BackendHMGet \/ BackendSIsMember

SpecBackend == Init /\ [][NextBackend]_vars

\* the value of the most recent set(key, _) of the history
RECURSIVE MostRecentSet(_, _)
MostRecentSet(h, key) ==
    IF h = <<>> THEN None
    ELSE IF h[Len(h)].op = "set" /\ h[Len(h)].key = key THEN Some(h[Len(h)].value)
    ELSE MostRecentSet(SubSeq(h, 1, Len(h) - 1), key)

\* the value of the most recent hset(key, field, _) of the history
RECURSIVE MostRecentHSet(_, _, _)
MostRecentHSet(h, key, field) ==
    IF h = <<>> THEN None
    ELSE IF h[Len(h)].op = "hset" /\ h[Len(h)].key = key /\ h[Len(h)].field = field
    THEN Some(h[Len(h)].value)
    ELSE MostRecentHSet(SubSeq(h, 1, Len(h) - 1), key, field)

HasHash(h, key) == \E i \in 1..Len(h) : h[i].op = "hset" /\ h[i].key = key

WasAdded(h, key, member) ==
    \E i \in 1..Len(h) :
        /\ h[i].op = "sadd" /\ h[i].key = key
        /\ \E j \in 1..Len(h[i].members) : h[i].members[j] = member

\* what hmget answers after the history
ExpectedHMGet(h, key, fields) ==
    IF ~HasHash(h, key) THEN None
    ELSE Some(ArrayF([i \in 1..Len(fields) |->
                         IF MostRecentHSet(h, key, fields[i]).some
                         THEN MostRecentHSet(h, key, fields[i]).val
                         ELSE NullF]))

\* every read of the three stores answers from the writes made to its own store
ReadsFollowWrites(b, h) ==
    /\ \A key \in BackendKeys : Backend_get(b, key) = MostRecentSet(h, key)
    /\ \A key \in BackendKeys, field \in BackendFields :
           Backend_hget(b, key, field) = MostRecentHSet(h, key, field)
    /\ \A key \in BackendKeys, fields \in FieldLists :
           /\ Backend_hmget(b, key, fields) = ExpectedHMGet(h, key, fields)
           /\ Backend_hmget(b, key, fields).some =>
                  Len(Backend_hmget(b, key, fields).val.items) = Len(fields)
    /\ \A key \in BackendKeys, member \in BackendMembers, collide \in BOOLEAN :
           Backend_s_is_member(b, key, member, collide) = WasAdded(h, key, member)

\* the answer the last read gave is the one the history of writes calls for
LastReadFollowsWrites ==
    CASE api.op = "get" -> api.result = MostRecentSet(api.hist, api.key)
      [] api.op = "hget" -> api.result = MostRecentHSet(api.hist, api.key, api.arg)
      [] api.op = "hmget" -> api.result = ExpectedHMGet(api.hist, api.key, api.arg)
      [] api.op = "s_is_member" -> api.result = WasAdded(api.hist, api.key, api.arg)
      [] OTHER -> TRUE

\* C22: after any sequence of set, hset and sadd calls, get(k) is the value of
\* the most recent set(k, v) or None; hget(k, f) is the value of the most
\* recent hset(k, f, v) or None; hmget(k, fields) is None when k has no hash,
\* else an Array as long as fields with Null for every missing field; and
\* each store answers from the writes to that store alone, so a write to one
\* store changes nothing the other two return.
C22_ReadYourWrites ==
    /\ ReadsFollowWrites(backend, api.hist)
    /\ LastReadFollowsWrites

\* one key was set twice to different values and given a hash, and hmget then
\* asked for a field that is there and one that is missing
C22_Witness ==
    /\ api.op = "hmget"
    /\ Len(api.hist) = MaxCalls
    /\ \E i, j \in 1..Len(api.hist) :
           /\ i < j
           /\ api.hist[i].op = "set" /\ api.hist[j].op = "set"
           /\ api.hist[i].key = api.key /\ api.hist[j].key = api.key
           /\ api.hist[i].value # api.hist[j].value
    /\ HasHash(api.hist, api.key)
    /\ api.result.some
    /\ \E i, j \in 1..Len(api.arg) :
           api.result.val.items[i] = NullF /\ api.result.val.items[j] # NullF
====
